---- MODULE Spec2Model ----
(***************************************************************************)
(* Terrain generation service (src/app_fastapi.py): area-to-tile scan,     *)
(* tile cache with download on miss, archive assembly and the 24h sweep    *)
(* of the artifact directory.                                              *)
(*                                                                         *)
(* Representation.                                                         *)
(*  - Latitudes and longitudes of a rectangle request are floats; they are *)
(*    held in fixed point, Half units per degree, so every value and every *)
(*    "+= 1.0" is exact, as it is for binary floats with a .0 or .5        *)
(*    fraction.                                                            *)
(*  - The circle scan works in 1e-7 degree units (E7), as the code does.   *)
(*  - Time is in hours; Retention is the code's 24*60*60 seconds.          *)
(*  - A file name "%c%02u%c%03u.DAT.gz" is the tuple <<NS, LL, EW, LLL>>   *)
(*    of its hemisphere letters and clamped magnitudes.                    *)
(*  - The handlers are "async def" without an await, so one server process  *)
(*    serves its requests one after another. Requests overlap when several *)
(*    server processes (Workers) share the tile cache and the artifact     *)
(*    directory; a step is then one filesystem or network call.            *)
(*  - os.listdir gives the entries in no particular order; the sweep here  *)
(*    visits them in ascending id order.                                   *)
(*  - The clock is coarse: it moves between requests, never inside one.    *)
(***************************************************************************)
EXTENDS Integers, Sequences, FiniteSets, TLC

VARIABLES
    testMode,   \* "pytest" in sys.modules: selects url_path1/url_path3
    now,        \* time.time(), in hours
    cache,      \* tile files on disk: fn -> "absent" | "empty" | "partial" | "full"
    outdir,     \* output_path: archive id -> [mtime, entries]
    nextUuid,   \* uuid.uuid1() never repeats: next fresh id
    pc,         \* per worker: position in the handler
    req,        \* per worker: the request being served
    scan,       \* per worker: [filelist, done, outsideLat] built by the scan
    uuidkey,    \* per worker: uuidkey of the request
    idx,        \* per worker: index of fn in "for fn in fileList"
    success,    \* per worker: value returned by compressFiles
    listing,    \* per worker: entries of os.listdir not yet visited
    cur,        \* per worker: entry f being stat-ed / removed
    response    \* per worker: what the handler returned or raised

vars == <<testMode, now, cache, outdir, nextUuid, pc, req, scan, uuidkey, idx,
          success, listing, cur, response>>

----------------------------------------------------------------------------
(* Units, program constants and bounds *)

Half == 2
E7 == 10000000
LatLimit == 84
Retention == 24

MaxRequests == 2
MaxTime == 49

Workers == {1, 2}
Versions == {1, 3}
TickSteps == {24}

Abs(x) == IF x < 0 THEN -x ELSE x
Min(a, b) == IF a < b THEN a ELSE b

\* math.floor of a float held in Half units (\div rounds toward minus infinity)
floor(x) == x \div Half

----------------------------------------------------------------------------
(* getDatFile, lines 114-124 *)

getDatFile(lat, lon) ==
    << IF lat < 0 THEN "S" ELSE "N", Min(Abs(lat), 99),
       IF lon < 0 THEN "W" ELSE "E", Min(Abs(lon), 999) >>

\* os.path.join(tile_path, name): the version's tile directory and the name
tile_path(version) == IF version = 1 THEN "tilesdat1" ELSE "tilesdat3"
join(dir, name) == <<dir, name>>
basename(fn) == fn[2]

\* url_path1 / url_path3, lines 31-41
url_path(version) == IF testMode THEN "https://terrain.ardupilot.org/" ELSE "None"

----------------------------------------------------------------------------
(* The scans *)

EmptyScan == [filelist |-> << >>, done |-> {}, outsideLat |-> "None"]

\* lines 227-235 and 311-320: one visited cell
insideLimit(lat_int) == Abs(lat_int) <= LatLimit

visit(acc, lat_int, lon_int, tp) ==
    LET tag == <<lat_int, lon_int>> IN
    IF tag \in acc.done THEN acc
    ELSE IF insideLimit(lat_int)
         THEN [acc EXCEPT !.done = @ \cup {tag},
                          !.filelist = Append(@, join(tp, getDatFile(lat_int, lon_int)))]
         ELSE [acc EXCEPT !.done = @ \cup {tag}, !.outsideLat = "True"]

\* list(dict.fromkeys(filelist)), lines 238 and 325: first occurrences, in order
RECURSIVE fromkeys(_, _)
fromkeys(s, out) ==
    IF s = << >> THEN out
    ELSE fromkeys(Tail(s),
                  IF \E k \in 1..Len(out) : out[k] = Head(s) THEN out ELSE Append(out, Head(s)))

\* lines 304-322: while lat <= max_lat: ... while lon <= max_lon: ...
lat_step == Half
lon_step == Half

RECURSIVE rectLon(_, _, _, _, _)
rectLon(acc, lat, lon, max_lon, tp) ==
    IF lon <= max_lon
    THEN rectLon(visit(acc, floor(lat), floor(lon), tp), lat, lon + lon_step, max_lon, tp)
    ELSE acc

RECURSIVE rectLat(_, _, _, _, _, _)
rectLat(acc, lat, max_lat, min_lon, max_lon, tp) ==
    IF lat <= max_lat
    THEN rectLat(rectLon(acc, lat, min_lon, max_lon, tp), lat + lat_step, max_lat,
                 min_lon, max_lon, tp)
    ELSE acc

rectangleScan(r) ==
    LET acc == rectLat(EmptyScan, r.min_lat, r.max_lat, r.min_lon, r.max_lon,
                       tile_path(r.version))
    IN [acc EXCEPT !.filelist = fromkeys(@, << >>)]

\* range(-radius, radius) x range(-radius, radius), in loop order
RECURSIVE rangeSeq(_, _)
rangeSeq(a, b) == IF a >= b THEN << >> ELSE <<a>> \o rangeSeq(a + 1, b)

offsets(radius) ==
    LET r == rangeSeq(-radius, radius)
        n == Len(r)
    IN [k \in 1..(n * n) |-> <<r[((k - 1) \div n) + 1], r[((k - 1) % n) + 1]>>]

\* terrain_gen.add_offset is outside this file: (lat, lon) in 1e-7 degrees,
\* displaced by the two offsets in metres, MetreE7 units of 1e-7 degree to
\* the metre (the flat-earth scaling; the longitude's 1/cos(lat) is left out)
MetreE7 == 90
add_offset(lat_e7, lon_e7, ofs_north, ofs_east) ==
    <<lat_e7 + ofs_north * MetreE7, lon_e7 + ofs_east * MetreE7>>

\* lat*1e7 for a float held in Half units
toE7(x) == (x \div Half) * E7 + (x % Half) * (E7 \div Half)

RECURSIVE circleFrom(_, _, _, _)
circleFrom(acc, ofs, r, tp) ==
    IF ofs = << >> THEN acc
    ELSE LET p2 == add_offset(toE7(r.lat), toE7(r.lon),
                              Head(ofs)[1] * 1000, Head(ofs)[2] * 1000)
         IN circleFrom(visit(acc, p2[1] \div E7, p2[2] \div E7, tp), Tail(ofs), r, tp)

circleScan(r) ==
    LET acc == circleFrom(EmptyScan, offsets(r.radius), r, tile_path(r.version))
    IN [acc EXCEPT !.filelist = fromkeys(@, << >>)]

----------------------------------------------------------------------------
(* Inputs *)

RectRequests(lats, lons) ==
    {[kind |-> "rect", min_lat |-> a, max_lat |-> b, min_lon |-> c, max_lon |-> d,
      version |-> v] :
        a \in lats, b \in lats, c \in lons, d \in lons, v \in Versions}

\* validate_lat_range / validate_lon_range, lines 87-97
validRect(r) == r.min_lat < r.max_lat /\ r.min_lon < r.max_lon

CircleRequests(lats, lons, radii) ==
    {[kind |-> "circle", lat |-> a, lon |-> c, radius |-> k, version |-> 3] :
        a \in lats, c \in lons, k \in radii}

\* requests served in Spec: around the +84/+85 degree boundary, longitudes 0..1;
\* the circle is 1 km around (85.0, 0.5)
ProtoRequests ==
    { [kind |-> "rect", min_lat |-> 168, max_lat |-> 169, min_lon |-> 0, max_lon |-> 2,
       version |-> 3],
      [kind |-> "rect", min_lat |-> 170, max_lat |-> 171, min_lon |-> 0, max_lon |-> 1,
       version |-> 1] }
        \cup CircleRequests({170}, {1}, {1})

\* requests scanned in SpecScan: both hemispheres, fractional bounds
ScanLatsN == 166..172
ScanLatsS == -173..-167
ScanLons == -3..3
ScanLonsE == 357..360
ScanRequests ==
    {r \in RectRequests(ScanLatsN, ScanLons) \cup RectRequests(ScanLatsS, ScanLons)
           \cup RectRequests(ScanLatsN, ScanLonsE) : validRect(r)}

Tiles ==
    { join(tile_path(3), getDatFile(84, 0)), join(tile_path(3), getDatFile(84, 1)) }

NoReq == [kind |-> "none"]
NoResponse == [kind |-> "none"]

\* archives of earlier requests found in output_path: 25h old and 1h old
InitialDir ==
    (1 :> [mtime |-> 0, entries |-> << >>]) @@ (2 :> [mtime |-> 24, entries |-> << >>])
FirstUuid == Cardinality(DOMAIN InitialDir) + 1

----------------------------------------------------------------------------
(* State after start-up *)

Idle ==
    /\ pc = [p \in Workers |-> "idle"]
    /\ req = [p \in Workers |-> NoReq]
    /\ scan = [p \in Workers |-> EmptyScan]
    /\ uuidkey = [p \in Workers |-> 0]
    /\ idx = [p \in Workers |-> 0]
    /\ success = [p \in Workers |-> FALSE]
    /\ listing = [p \in Workers |-> {}]
    /\ cur = [p \in Workers |-> 0]
    /\ response = [p \in Workers |-> NoResponse]

Init ==
    /\ \E m \in {<<FALSE, "absent">>, <<FALSE, "full">>, <<TRUE, "absent">>} :
           testMode = m[1] /\ cache = [f \in Tiles |-> m[2]]
    /\ now = 25
    /\ outdir = InitialDir
    /\ nextUuid = FirstUuid
    /\ Idle

----------------------------------------------------------------------------
(* generate_api / generate_rectangle_api: entry and scan *)

\* generate_rectangle_api, lines 275-326: a fresh uuidkey, then the scan
generate_rectangle_api(p, r) ==
    /\ pc[p] \in {"idle", "done", "raised"}
    /\ nextUuid < FirstUuid + MaxRequests
    /\ r.kind = "rect"
    /\ req' = [req EXCEPT ![p] = r]
    /\ uuidkey' = [uuidkey EXCEPT ![p] = nextUuid]
    /\ nextUuid' = nextUuid + 1
    /\ scan' = [scan EXCEPT ![p] = rectangleScan(r)]
    /\ success' = [success EXCEPT ![p] = FALSE]
    /\ response' = [response EXCEPT ![p] = NoResponse]
    /\ pc' = [pc EXCEPT ![p] = "zipopen"]
    /\ UNCHANGED <<testMode, now, cache, outdir, idx, listing, cur>>

\* generate_api, lines 198-239
generate_api(p, r) ==
    /\ pc[p] \in {"idle", "done", "raised"}
    /\ nextUuid < FirstUuid + MaxRequests
    /\ r.kind = "circle"
    /\ req' = [req EXCEPT ![p] = r]
    /\ uuidkey' = [uuidkey EXCEPT ![p] = nextUuid]
    /\ nextUuid' = nextUuid + 1
    /\ scan' = [scan EXCEPT ![p] = circleScan(r)]
    /\ success' = [success EXCEPT ![p] = FALSE]
    /\ response' = [response EXCEPT ![p] = NoResponse]
    /\ pc' = [pc EXCEPT ![p] = "zipopen"]
    /\ UNCHANGED <<testMode, now, cache, outdir, idx, listing, cur>>

----------------------------------------------------------------------------
(* compressFiles, lines 126-176 *)

zipthis(p) == uuidkey[p]
fileList(p) == scan[p].filelist
fn_stuck(p) == fileList(p)[1]
fn(p) == fileList(p)[idx[p]]

touch(dir, u) == [dir EXCEPT ![u].mtime = now]

\* line 172-174: the exception leaves the "with ZipFile" block, which closes the
\* archive, and compressFiles returns False
raiseInCompress(p) ==
    /\ outdir' = touch(outdir, zipthis(p))
    /\ success' = [success EXCEPT ![p] = FALSE]
    /\ pc' = [pc EXCEPT ![p] = "listdir"]

\* lines 153 and 176: "for fn in fileList" goes on with entry i, or is over:
\* the archive is closed and compressFiles returns True
forNext(p, i) ==
    /\ idx' = [idx EXCEPT ![p] = i]
    /\ IF i <= Len(fileList(p))
       THEN /\ pc' = [pc EXCEPT ![p] = "loop"]
            /\ UNCHANGED success
       ELSE /\ pc' = [pc EXCEPT ![p] = "listdir"]
            /\ success' = [success EXCEPT ![p] = TRUE]

\* line 152: zipfile.ZipFile(zipthis, 'w') creates the archive file
ZipOpen(p) ==
    /\ pc[p] = "zipopen"
    /\ outdir' = (zipthis(p) :> [mtime |-> now, entries |-> << >>]) @@ outdir
    /\ forNext(p, 1)
    /\ UNCHANGED <<testMode, now, cache, nextUuid, req, scan, uuidkey,
                   listing, cur, response>>

\* line 154: not os.path.exists(fn) and url_path != None
needsDownload_ignoringCache(f, version) == url_path(version) # "None"
needsDownload(f, version) == cache[f] = "absent" /\ url_path(version) # "None"

Exists(p) ==
    /\ pc[p] = "loop"
    /\ pc' = [pc EXCEPT ![p] =
                 IF needsDownload(fn(p), req[p].version) THEN "urlopen" ELSE "gzip"]
    /\ UNCHANGED <<testMode, now, cache, outdir, nextUuid, req, scan, uuidkey, idx,
                   success, listing, cur, response>>

\* line 157: urllib.request.urlopen answers or raises
UrlOpen(p) ==
    /\ pc[p] = "urlopen"
    /\ \/ /\ pc' = [pc EXCEPT ![p] = "open"]
          /\ UNCHANGED <<outdir, success>>
       \/ raiseInCompress(p)
    /\ UNCHANGED <<testMode, now, cache, nextUuid, req, scan, uuidkey, idx,
                   listing, cur, response>>

\* line 160: open(fn, 'b+w') creates or truncates the tile file
OpenTile(p) ==
    /\ pc[p] = "open"
    /\ cache' = [cache EXCEPT ![fn(p)] = "empty"]
    /\ pc' = [pc EXCEPT ![p] = "read"]
    /\ UNCHANGED <<testMode, now, outdir, nextUuid, req, scan, uuidkey, idx, success,
                   listing, cur, response>>

\* line 161: f.write(g.read()); g.read() returns the body or raises
ReadWrite(p) ==
    /\ pc[p] = "read"
    /\ \/ /\ cache' = [cache EXCEPT ![fn(p)] = "partial"]
          /\ pc' = [pc EXCEPT ![p] = "close"]
          /\ UNCHANGED <<outdir, success>>
       \/ /\ raiseInCompress(p)
          /\ UNCHANGED cache
    /\ UNCHANGED <<testMode, now, nextUuid, req, scan, uuidkey, idx,
                   listing, cur, response>>

\* lines 160-161: leaving "with open" flushes what write() still buffers. When
\* another writer truncated the file meanwhile, the flush lands in the
\* truncated file: it is complete (the whole body was still buffered) or torn.
CloseTile(p) ==
    /\ pc[p] = "close"
    /\ \E c \in (IF cache[fn(p)] = "empty" THEN {"partial", "full"} ELSE {"full"}) :
           cache' = [cache EXCEPT ![fn(p)] = c]
    /\ pc' = [pc EXCEPT ![p] = "gzip"]
    /\ UNCHANGED <<testMode, now, outdir, nextUuid, req, scan, uuidkey, idx, success,
                   listing, cur, response>>

\* lines 164-170: gzip.open(fn).read() raises on a missing file
\* (FileNotFoundError) and on a truncated stream (EOFError), and returns b''
\* for an empty file; writestr adds the entry basename(fn)[:-3]
gzipReadable(content) == content \in {"empty", "full"}

Decompress(p) ==
    /\ pc[p] = "gzip"
    /\ IF gzipReadable(cache[fn(p)])
       THEN /\ outdir' = [touch(outdir, zipthis(p)) EXCEPT ![zipthis(p)].entries =
                              Append(@, <<basename(fn(p)), cache[fn(p)]>>)]
            /\ forNext(p, idx[p] + 1)
       ELSE /\ raiseInCompress(p)
            /\ UNCHANGED idx
    /\ UNCHANGED <<testMode, now, cache, nextUuid, req, scan, uuidkey,
                   listing, cur, response>>

----------------------------------------------------------------------------
(* The sweep and the response, lines 244-268 / 331-355 *)

\* line 266-268: any exception in the handler becomes HTTPException(500)
\* the handler is left: its locals are gone
leave(p) ==
    /\ req' = [req EXCEPT ![p] = NoReq]
    /\ idx' = [idx EXCEPT ![p] = 0]
    /\ listing' = [listing EXCEPT ![p] = {}]
    /\ cur' = [cur EXCEPT ![p] = 0]

raiseInHandler(p) ==
    /\ response' = [response EXCEPT ![p] = [kind |-> "HTTPException", status_code |-> 500]]
    /\ pc' = [pc EXCEPT ![p] = "raised"]
    /\ leave(p)

\* line 245: os.listdir(output_path)
ListDir(p) ==
    /\ pc[p] = "listdir"
    /\ listing' = [listing EXCEPT ![p] = DOMAIN outdir]
    /\ pc' = [pc EXCEPT ![p] = "stat"]
    /\ UNCHANGED <<testMode, now, cache, outdir, nextUuid, req, scan, uuidkey, idx,
                   success, cur, response>>

\* line 246: st_mtime < time.time() - 24 * 60 * 60
expired_atBoundary(mtime) == mtime <= now - Retention
expired(mtime) == mtime < now - Retention

\* line 245: "for f in ...": entries are visited in directory order
first(S) == CHOOSE f \in S : \A g \in S : f <= g

\* line 246: os.stat raises FileNotFoundError when the entry is gone
Stat(p) ==
    /\ pc[p] = "stat"
    /\ listing[p] # {}
    /\ LET f == first(listing[p]) IN
         IF f \notin DOMAIN outdir
         THEN raiseInHandler(p)
         ELSE /\ listing' = [listing EXCEPT ![p] = @ \ {f}]
              /\ IF expired(outdir[f].mtime)
                 THEN /\ cur' = [cur EXCEPT ![p] = f]
                      /\ pc' = [pc EXCEPT ![p] = "remove"]
                 ELSE UNCHANGED <<cur, pc>>
              /\ UNCHANGED <<req, idx, response>>
    /\ UNCHANGED <<testMode, now, cache, outdir, nextUuid, scan, uuidkey, success>>

\* line 248: os.remove raises FileNotFoundError when the entry is gone
Remove(p) ==
    /\ pc[p] = "remove"
    /\ IF cur[p] \notin DOMAIN outdir
       THEN raiseInHandler(p) /\ UNCHANGED outdir
       ELSE /\ outdir' = [f \in DOMAIN outdir \ {cur[p]} |-> outdir[f]]
            /\ pc' = [pc EXCEPT ![p] = "stat"]
            /\ cur' = [cur EXCEPT ![p] = 0]
            /\ UNCHANGED <<req, idx, listing, response>>
    /\ UNCHANGED <<testMode, now, cache, nextUuid, scan, uuidkey, success>>

\* lines 250-264
GenerateResponse(p) ==
    IF success[p]
    THEN [kind |-> "GenerateResponse", success |-> TRUE, uuid |-> uuidkey[p],
          download_url |-> <<uuidkey[p]>>, outside_lat |-> scan[p].outsideLat,
          error |-> "None"]
    ELSE [kind |-> "GenerateResponse", success |-> FALSE, uuid |-> uuidkey[p],
          download_url |-> << >>, outside_lat |-> "None",
          error |-> "Cannot generate terrain"]

Respond(p) ==
    /\ pc[p] = "stat"
    /\ listing[p] = {}
    /\ response' = [response EXCEPT ![p] = GenerateResponse(p)]
    /\ pc' = [pc EXCEPT ![p] = "done"]
    /\ leave(p)
    /\ UNCHANGED <<testMode, now, cache, outdir, nextUuid, scan, uuidkey, success>>

\* The clock is coarse: it moves between requests, never inside one.
inFlight(p) == pc[p] \notin {"idle", "done", "raised"}

Tick ==
    /\ \A p \in Workers : ~inFlight(p)
    /\ \E d \in TickSteps :
         /\ now + d <= MaxTime
         /\ now' = now + d
    /\ UNCHANGED <<testMode, cache, outdir, nextUuid, pc, req, scan, uuidkey, idx,
                   success, listing, cur, response>>

----------------------------------------------------------------------------

step(p) ==
    \/ ZipOpen(p) \/ Exists(p) \/ UrlOpen(p) \/ OpenTile(p) \/ ReadWrite(p)
    \/ CloseTile(p) \/ Decompress(p)
    \/ ListDir(p) \/ Stat(p) \/ Remove(p) \/ Respond(p)

Next ==
    \/ \E p \in Workers :
         \/ \E r \in ProtoRequests : generate_rectangle_api(p, r) \/ generate_api(p, r)
         \/ step(p)
    \/ Tick

Spec == Init /\ [][Next]_vars

\* The rectangle scan alone, over a wide set of requests
NextScan == \E r \in ScanRequests : generate_rectangle_api(1, r)

SpecScan == Init /\ [][NextScan]_vars

----------------------------------------------------------------------------
(* Properties *)

Terminal(p) == pc[p] \in {"done", "raised"}
Scanned(p) == pc[p] # "idle"
InCompress(p) == pc[p] \in {"loop", "urlopen", "open", "read", "close", "gzip"}
Writing(q, f) == pc[q] \in {"read", "close"} /\ fn(q) = f
SweepComplete(p) == pc[p] = "stat" /\ listing[p] = {}
Names(seq) == {seq[i] : i \in 1..Len(seq)}
EntryNames(u) == [i \in 1..Len(outdir[u].entries) |-> outdir[u].entries[i][1]]

TypeOK ==
    /\ testMode \in BOOLEAN
    /\ now \in 0..MaxTime
    /\ cache \in [Tiles -> {"absent", "empty", "partial", "full"}]
    /\ \A p \in Workers :
         /\ pc[p] \in {"idle", "zipopen", "loop", "urlopen", "open", "read", "close", "gzip",
                       "listdir", "stat", "remove", "done", "raised"}
         /\ Names(fileList(p)) \subseteq Tiles
         /\ InCompress(p) => idx[p] \in 1..Len(fileList(p))
         /\ InCompress(p) => uuidkey[p] \in DOMAIN outdir

\* C1. A rectangle request's tile list has exactly one entry for every integer
\* degree cell of [floor(minLat), floor(maxLat)] x [floor(minLon), floor(maxLon)]
\* with |lat| <= 84, no other entry, and no entry twice.
ExpectedCells(r) ==
    {c \in (floor(r.min_lat)..floor(r.max_lat)) \X (floor(r.min_lon)..floor(r.max_lon)) :
        Abs(c[1]) <= 84}

C1_RectangleCoverage ==
    \A p \in Workers :
        pc[p] = "zipopen" /\ req[p].kind = "rect" =>
            LET fl == fileList(p)
                tp == tile_path(req[p].version)
                cells == ExpectedCells(req[p])
            IN /\ Len(fl) = Cardinality(cells)
               /\ \A c \in cells :
                      Cardinality({i \in 1..Len(fl) : fl[i] = join(tp, getDatFile(c[1], c[2]))}) = 1
               /\ \A i \in 1..Len(fl) :
                      \E c \in cells : fl[i] = join(tp, getDatFile(c[1], c[2]))

\* The part of C1 the scan does keep: every listed file is a cell of the
\* rectangle inside the limit, and none is listed twice.
C1_NoStrayNoDuplicate ==
    \A p \in Workers :
        pc[p] = "zipopen" /\ req[p].kind = "rect" =>
            LET fl == fileList(p)
                tp == tile_path(req[p].version)
            IN /\ \A i \in 1..Len(fl) :
                      \E c \in ExpectedCells(req[p]) : fl[i] = join(tp, getDatFile(c[1], c[2]))
               /\ \A i, j \in 1..Len(fl) : fl[i] = fl[j] => i = j

\* C2. In both scans every scanned cell beyond +-84 degrees is left out of the
\* tile list and sets the outside-latitude flag; a request whose scanned cells
\* all lie beyond the limit ends with an empty tile list, the flag set and a
\* successful response backed by a zero-entry archive.
ScanRespectsLimit(p) ==
    LET inside == {c \in scan[p].done : Abs(c[1]) <= 84}
        tp == IF fileList(p) = << >> THEN "" ELSE fileList(p)[1][1]
    IN /\ Names(fileList(p)) = {join(tp, getDatFile(c[1], c[2])) : c \in inside}
       /\ (scan[p].outsideLat = "True") = (inside # scan[p].done)

AllOutside(p) == scan[p].done # {} /\ \A c \in scan[p].done : Abs(c[1]) > 84

C2_OutsideLatitude ==
    \A p \in Workers :
        /\ Scanned(p) => ScanRespectsLimit(p)
        /\ Terminal(p) /\ AllOutside(p) =>
              /\ fileList(p) = << >>
              /\ response[p].kind = "GenerateResponse"
              /\ response[p].success
              /\ response[p].outside_lat = "True"
              /\ uuidkey[p] \in DOMAIN outdir
              /\ outdir[uuidkey[p]].entries = << >>

\* The part of C2 that holds: the scan's treatment of the limit, and the
\* result of a fully outside request whenever the handler returns.
C2_HoldsUnlessRaised ==
    \A p \in Workers :
        /\ Scanned(p) => ScanRespectsLimit(p)
        /\ pc[p] = "done" /\ AllOutside(p) =>
              /\ fileList(p) = << >>
              /\ response[p].success
              /\ response[p].outside_lat = "True"
              /\ uuidkey[p] \in DOMAIN outdir
              /\ outdir[uuidkey[p]].entries = << >>

\* C3. When the sweep of a request has run to completion at time now, no entry
\* older than now - 24h is left in the artifact directory and the request's own
\* archive is there; and no step ever deletes an entry whose last-modified
\* time is within the last 24h.
Age(f) == now - outdir[f].mtime

SweptClean ==
    \A p \in Workers :
        SweepComplete(p) =>
            /\ \A f \in DOMAIN outdir : Age(f) <= 24
            /\ uuidkey[p] \in DOMAIN outdir

RecentKept ==
    \A f \in DOMAIN outdir : Age(f) <= 24 => f \in DOMAIN outdir'

C3_SweepRetention == []SweptClean /\ [][RecentKept]_vars

\* a completed sweep that deleted the 25h old archive and kept the 1h old one
C3_Witness ==
    \E p \in Workers :
        /\ SweepComplete(p)
        /\ now = 25
        /\ 1 \notin DOMAIN outdir
        /\ 2 \in DOMAIN outdir /\ Age(2) = 1
        /\ uuidkey[p] \in DOMAIN outdir

\* C4. A resolve that finds the tile's local file present does not fetch it,
\* and a tile file, once stored, stays: so a stored tile is not downloaded
\* again by a later resolve.
PresentNotFetched ==
    \A p \in Workers :
        pc[p] = "loop" /\ cache[fn(p)] # "absent"
            => pc'[p] # "urlopen"

StoredStays == \A f \in Tiles : cache[f] # "absent" => cache'[f] # "absent"

C4_NoRefetch == [][PresentNotFetched /\ StoredStays]_vars

\* an origin is configured, the tile was downloaded and stored, and a resolve
\* of it has gone past the presence check without fetching
C4_Witness ==
    \E p \in Workers :
        /\ testMode
        /\ pc[p] = "gzip"
        /\ cache[fn(p)] = "full"
        /\ \E u \in DOMAIN outdir :
               /\ u # uuidkey[p]
               /\ \E i \in 1..Len(outdir[u].entries) :
                      outdir[u].entries[i] = <<basename(fn(p)), "full">>
        /\ \A q \in Workers : ~Writing(q, fn(p))

\* C5. When compressFiles fails, no <requestId>.zip is left in the artifact
\* directory.
C5_NoPartialArchive ==
    \A p \in Workers :
        pc[p] = "listdir" /\ ~success[p] => uuidkey[p] \notin DOMAIN outdir

\* C6. An entry deleted by a concurrent sweep between listing and stat/remove
\* is not an error: no request ends in an exception because of it.
C6_SweepTolerant == \A p \in Workers : pc[p] # "raised"

\* C7. A failure of tile resolution or archive assembly ends in the structured
\* failure response (success=false, an error message, no download URL), never
\* in an exception; success is reported only with every required tile in the
\* archive.
FailureResponse(p) ==
    /\ response[p].kind = "GenerateResponse"
    /\ ~response[p].success
    /\ response[p].error # "None"
    /\ response[p].download_url = << >>

C7_StructuredFailure ==
    \A p \in Workers :
        Terminal(p) =>
            /\ ~success[p] => FailureResponse(p)
            /\ response[p].kind = "GenerateResponse" /\ response[p].success =>
                  /\ uuidkey[p] \in DOMAIN outdir
                  /\ EntryNames(uuidkey[p]) =
                         [i \in 1..Len(fileList(p)) |-> basename(fileList(p)[i])]

\* the part of C7 that holds: whenever the handler returns
C7_HoldsUnlessRaised ==
    \A p \in Workers :
        pc[p] = "done" =>
            /\ ~success[p] => FailureResponse(p)
            /\ response[p].success =>
                  /\ success[p]
                  /\ uuidkey[p] \in DOMAIN outdir
                  /\ EntryNames(uuidkey[p]) =
                         [i \in 1..Len(fileList(p)) |-> basename(fileList(p)[i])]

\* C8. While one request writes a downloaded tile, no other request that has
\* found the tile present is about to decompress it empty or partly written.
C8_AtomicTileWrite ==
    \A p, q \in Workers :
        p # q /\ pc[p] = "gzip" /\ Writing(q, fn(p)) =>
            cache[fn(p)] \notin {"empty", "partial"}

\* C9. A tile file exists only as the result of a successful download: a file
\* that no download is writing is complete, so a failed fetch leaves none.
C9_FailedFetchLeavesNoFile ==
    \A f \in Tiles :
        cache[f] \in {"empty", "partial"} => \E q \in Workers : Writing(q, f)

\* C10. While a download of the request is outstanding or not yet started, the
\* destination archive has not been created and holds no entry.
Resolving(p) ==
    \/ pc[p] = "zipopen" /\ fileList(p) # << >>
    \/ pc[p] \in {"loop", "urlopen", "open", "read", "close"}

====
